---- MODULE Spec2Model ----
(***************************************************************************)
(* Dynamic relaxation driver dr_numpy of compas                            *)
(* (src/src/compas/numerical/algorithms/dr_numpy.py) as a state machine.   *)
(*                                                                         *)
(* Numbers.  A float is modelled as an extended rational <<n, d>>:         *)
(*   d > 0, gcd(n, d) = 1   the finite value n/d                           *)
(*   <<1, 0>>, <<-1, 0>>    +inf, -inf                                     *)
(*   <<0, 0>>               NaN                                            *)
(* with the IEEE-754 rules numpy applies to the special values (x/0 is     *)
(* +-inf, 0/0 and inf-inf and 0*inf are NaN, NaN is absorbing).  Rounding  *)
(* is not modelled (finite arithmetic is exact) and zero carries no sign.  *)
(* Indices are 0-based as in the source.                                   *)
(***************************************************************************)
EXTENDS Integers, Sequences, FiniteSets, TLC

----------------------------------------------------------------------------
(* Extended rational arithmetic *)

Abs(i) == IF i < 0 THEN -i ELSE i

Sign(i) == IF i < 0 THEN -1 ELSE IF i = 0 THEN 0 ELSE 1

RECURSIVE GCD(_, _)
GCD(a, b) == IF b = 0 THEN a ELSE GCD(b, a % b)

NaN  == <<0, 0>>
PInf == <<1, 0>>
NInf == <<-1, 0>>
Zero == <<0, 1>>
One  == <<1, 1>>

\* the finite value n/d (d # 0) in lowest terms
Rat(n, d) ==
    LET g == GCD(Abs(n), Abs(d))
        s == Sign(d)
    IN  <<(s * n) \div g, Abs(d) \div g>>

Int2F(n) == <<n, 1>>

IsNaN(a)    == a = NaN
IsInf(a)    == a[2] = 0 /\ a[1] # 0
IsFinite(a) == a[2] # 0

Neg(a) == <<-a[1], a[2]>>

Add(a, b) ==
    IF IsNaN(a) \/ IsNaN(b) THEN NaN
    ELSE IF IsInf(a) THEN (IF IsInf(b) /\ b # a THEN NaN ELSE a)
    ELSE IF IsInf(b) THEN b
    ELSE LET g  == GCD(a[2], b[2])
             da == a[2] \div g
             db == b[2] \div g
         IN  Rat(a[1] * db + b[1] * da, da * b[2])

Sub(a, b) == Add(a, Neg(b))

Mul(a, b) ==
    IF IsNaN(a) \/ IsNaN(b) THEN NaN
    ELSE IF IsInf(a) \/ IsInf(b)
         THEN (IF a[1] = 0 \/ b[1] = 0 THEN NaN
               ELSE <<Sign(a[1]) * Sign(b[1]), 0>>)
    ELSE IF a[1] = 0 \/ b[1] = 0 THEN Zero
    ELSE LET g1 == GCD(Abs(a[1]), b[2])
             g2 == GCD(Abs(b[1]), a[2])
         IN  <<(a[1] \div g1) * (b[1] \div g2), (a[2] \div g2) * (b[2] \div g1)>>

\* numpy true division: no exception, x/0 = +-inf, 0/0 = NaN
Div(a, b) ==
    IF IsNaN(a) \/ IsNaN(b) THEN NaN
    ELSE IF IsInf(b) THEN (IF IsInf(a) THEN NaN ELSE Zero)
    ELSE IF b[1] = 0 THEN (IF a[1] = 0 THEN NaN ELSE <<Sign(a[1]), 0>>)
    ELSE IF IsInf(a) THEN <<Sign(a[1]) * Sign(b[1]), 0>>
    ELSE Mul(a, <<Sign(b[1]) * b[2], Abs(b[1])>>)

\* n1/d1 < n2/d2 for n1, n2 >= 0 and d1, d2 > 0, by continued fractions
RECURSIVE LessPos(_, _, _, _)
LessPos(n1, d1, n2, d2) ==
    LET q1 == n1 \div d1
        q2 == n2 \div d2
        r1 == n1 % d1
        r2 == n2 % d2
    IN  IF q1 # q2 THEN q1 < q2
        ELSE IF r2 = 0 THEN FALSE
        ELSE IF r1 = 0 THEN TRUE
        ELSE LessPos(d2, r2, d1, r1)

\* the float comparison a < b: FALSE whenever an operand is NaN
Less(a, b) ==
    IF IsNaN(a) \/ IsNaN(b) THEN FALSE
    ELSE IF a = b THEN FALSE
    ELSE IF a = NInf \/ b = PInf THEN TRUE
    ELSE IF a = PInf \/ b = NInf THEN FALSE
    ELSE IF a[1] < 0 /\ b[1] >= 0 THEN TRUE
    ELSE IF a[1] >= 0 /\ b[1] < 0 THEN FALSE
    ELSE IF a[1] >= 0 THEN LessPos(a[1], a[2], b[1], b[2])
    ELSE LessPos(-b[1], b[2], -a[1], a[2])

FAbs(a) == <<Abs(a[1]), a[2]>>

----------------------------------------------------------------------------
(* Program constants *)

\* reshape((-1, 3)): every row of vertices, loads, x, v, r has three components
Dim == 3
Axes == 1..Dim

\* K: for stage s, K[s][0] is the time fraction and K[s][1..] the stage weights
K == << <<Zero>>,
        <<Rat(1, 2), Rat(1, 2)>>,
        <<Rat(1, 2), Zero, Rat(1, 2)>>,
        <<One, Zero, Zero, One>> >>

\* K[s][j] with the source's 0-based indices
Kc(s, j) == K[s + 1][j + 1]

Half == Rat(1, 2)

\* 3.14159, the literal of the sectional properties
PiLit == Rat(314159, 100000)

----------------------------------------------------------------------------
VARIABLES
    args,      \* the positional arguments and callback of the call
    kwargs,    \* the keyword options of the call: a function on the keys given
    pc,        \* position in dr_numpy
    exc,       \* the exception that ended the call, "none" otherwise
    conf,      \* kmax, dt, tol1, tol2, ca, cb once configured
    x, linit, q, l, f, v, r,   \* the arrays of dr_numpy
    mass,      \* lumped mass of the current iteration
    x0, v0,    \* snapshot taken before rk
    steps,     \* the parameter steps of rk
    Ks,        \* the stage values K0.. computed so far in rk
    dv,        \* the value rk returned
    dx,        \* v * dt of the position update
    k,         \* loop index, -1 before the first iteration
    crit1, crit2,  \* r[free] and dx[free], the arrays crit1 and crit2 are the norms of
    calls,     \* the k of every callback invocation so far, in order
    first,     \* the outcome of an earlier call the caller compares with, or <<>>
    \* smoothing.py
    smooth,        \* the call: function name and arguments, <<>> without a call
    smooth_pc,     \* position in the smoothing function
    smooth_exc,    \* the exception that ended it, "none" otherwise
    smooth_k,      \* its loop index k, -1 before the first pass
    vertices,      \* the dict vertices: key -> the contents of its list object
    vertices_0,    \* the dict vertices_0: key -> the key whose list object it holds
    face_centroid, face_area,   \* the dicts of smooth_area
    todo,          \* the keys the loop over vertices_0 has still to visit
    smooth_calls,  \* number of callback invocations
    pass_start,    \* history: the contents of vertices when the pass began
    \* transformations/helpers.py
    helper,        \* the call: function name, M and check, <<>> without a call
    helper_pc,     \* position in determinant or inverse
    helper_exc,    \* the exception that ended it, "none" otherwise
    detM,          \* the local detM of inverse
    helper_out     \* the value returned

\* the variables of smoothing.py
smoothVars == <<smooth, smooth_pc, smooth_exc, smooth_k, vertices, vertices_0,
                face_centroid, face_area, todo, smooth_calls, pass_start>>

\* the variables of transformations/helpers.py
helperVars == <<helper, helper_pc, helper_exc, detM, helper_out>>

\* the variables outside dr_numpy
outside == <<smoothVars, helperVars>>

\* the variables of dr_numpy and of its caller
drVars == <<first, args, kwargs, pc, exc, conf, x, linit, q, l, f, v, r, mass, x0, v0,
            steps, Ks, dv, dx, k, crit1, crit2, calls>>

\* the variables outside smoothing.py
besideSmoothing == <<drVars, helperVars>>

vars == <<outside, first, args, kwargs, pc, exc, conf, x, linit, q, l, f, v, r, mass, x0, v0,
          steps, Ks, dv, dx, k, crit1, crit2, calls>>

arrays == <<x, linit, q, l, f, v, r>>
iter   == <<mass, x0, v0, steps, Ks, dv, dx, crit1, crit2>>

----------------------------------------------------------------------------
(* Index sets *)

num_v == Cardinality(DOMAIN args.vertices)
num_e == Cardinality(DOMAIN args.edges)
Vs    == 0..(num_v - 1)
Es    == 0..(num_e - 1)

\* free = list(set(range(num_v)) - set(fixed))
free == Vs \ args.fixed

----------------------------------------------------------------------------
(* Array helpers *)

RECURSIVE SumUpTo(_, _)
\* fn[0] + ... + fn[n-1]
SumUpTo(fn, n) == IF n = 0 THEN Zero ELSE Add(SumUpTo(fn, n - 1), fn[n - 1])

ZeroRow == [c \in Axes |-> Zero]

\* s * A for a scalar s and an array of rows A
Scale(s, A) == [i \in DOMAIN A |-> [c \in Axes |-> Mul(s, A[i][c])]]

\* A + B, row arrays of the same shape
AddRows(A, B) == [i \in DOMAIN A |-> [c \in Axes |-> Add(A[i][c], B[i][c])]]

\* A[free] = B[free]: A with the rows at rows replaced by those of B
SetRows(A, rows, B) == [i \in DOMAIN A |-> IF i \in rows THEN B[i] ELSE A[i]]

\* a product with a stored sparse entry w: a zero entry is not stored
\* (scipy drops zeros when it converts or multiplies sparse matrices),
\* so it contributes nothing whatever the dense operand is
Sp(w, y) == IF w = Zero THEN Zero ELSE Mul(w, y)

\* C[e, i]: -1 at the first vertex of edge e, +1 at the second
Cm(e, i) ==
    IF args.edges[e][1] = i THEN -1
    ELSE IF args.edges[e][2] = i THEN 1
    ELSE 0

\* C.dot(x): row e is x[j] - x[i] for edge e = (i, j)
CDot(xx) ==
    [e \in Es |-> [c \in Axes |->
        Add(Neg(xx[args.edges[e][1]][c]), xx[args.edges[e][2]][c])]]

\* the square root of a float whose root is rational
ISqrt(n) == CHOOSE s \in 0..n : s * s = n
Sqrt(a) ==
    IF IsNaN(a) THEN NaN
    ELSE IF a = PInf THEN PInf
    ELSE <<ISqrt(a[1]), ISqrt(a[2])>>

\* sqrt(sum(row ** 2)); a row with a single non-zero component a has the
\* norm sqrt(a * a) = |a|, which is formed without squaring
RowNorm(row) ==
    LET nz == {c \in Axes : row[c] # Zero}
    IN  IF nz = {} THEN Zero
        ELSE IF Cardinality(nz) = 1 THEN FAbs(row[CHOOSE c \in nz : TRUE])
        ELSE Sqrt(SumUpTo([c \in 0..(Dim - 1) |-> Mul(row[c + 1], row[c + 1])], Dim))

\* normrow(A): the euclidean norm of every row
NormRow(A) == [e \in DOMAIN A |-> RowNorm(A[e])]

\* scipy.linalg.norm checks its argument (asarray_chkfinite) and raises
\* ValueError when it holds an inf or a NaN
AllFinite(A, rows) == \A i \in rows : \A c \in Axes : IsFinite(A[i][c])

\* A[rows], the argument of norm; the norm itself may be irrational, so a
\* crit is kept as the finite array it is the norm of
Slice(A, rows) == [i \in rows |-> A[i]]

\* the sum of the squares of the entries of a slice
SumSq(sl) ==
    SumUpTo([n \in 0..(num_v * Dim - 1) |->
                IF (n \div Dim) \in DOMAIN sl
                THEN Mul(sl[n \div Dim][(n % Dim) + 1], sl[n \div Dim][(n % Dim) + 1])
                ELSE Zero], num_v * Dim)

\* norm(sl) < t: false when t <= 0 or when one entry alone reaches t,
\* true when every entry is zero, otherwise sum of squares < t * t
NormLess(sl, t) ==
    /\ Less(Zero, t)
    /\ \A i \in DOMAIN sl : \A c \in Axes : Less(FAbs(sl[i][c]), t)
    /\ \/ \A i \in DOMAIN sl : \A c \in Axes : sl[i][c] = Zero
       \/ Less(SumSq(sl), Mul(t, t))

\* (Cit.dot(Q).dot(C))[i, j] = sum over e of C[e, i] * q[e] * C[e, j]
Dm(qq, i, j) ==
    SumUpTo([e \in Es |->
        IF Cm(e, i) # 0 /\ Cm(e, j) # 0
        THEN Sp(Mul(Int2F(Cm(e, i)), qq[e]), Int2F(Cm(e, j)))
        ELSE Zero], num_e)

\* a variant of DDot that multiplies the columns of the free vertices only
DDot_FreeColumns(qq, xx, i) ==
    [c \in Axes |->
        SumUpTo([j \in Vs |-> IF j \in free THEN Sp(Dm(qq, i, j), xx[j][c]) ELSE Zero],
                num_v)]

\* D.dot(x) for the row of vertex i
DDot(qq, xx, i) ==
    [c \in Axes |-> SumUpTo([j \in Vs |-> Sp(Dm(qq, i, j), xx[j][c])], num_v)]

\* Ct.dot(Q).dot(u) for the row of vertex i
CtQDot(qq, uu, i) ==
    [c \in Axes |->
        SumUpTo([e \in Es |->
            IF Cm(e, i) # 0
            THEN Sp(Mul(Int2F(Cm(e, i)), qq[e]), uu[e][c])
            ELSE Zero], num_e)]

\* Ct2.dot(w): the sum of w over the edges incident to vertex i
Ct2Dot(w, i) ==
    SumUpTo([e \in Es |-> IF Cm(e, i) # 0 THEN w[e] ELSE Zero], num_e)

\* y[isinf(y)] = 0; y[isnan(y)] = 0
Clean(y) == IF IsFinite(y) THEN y ELSE Zero

----------------------------------------------------------------------------
(* Configuration *)

\* kwargs.get(key, default)
KwGet(key, default) == IF key \in DOMAIN kwargs THEN kwargs[key] ELSE default

\* Coeff.__init__: a = (1 - c * 0.5) / (1 + c * 0.5); b = 0.5 * (1 + a).
\* c is a Python number: the division raises ZeroDivisionError on a zero divisor.
CoeffDen(c) == Add(One, Mul(c, Half))
CoeffA(c)   == Div(Sub(One, Mul(c, Half)), CoeffDen(c))
CoeffB(c)   == Mul(Half, Add(One, CoeffA(c)))

\* truth value and callability of the callback argument
Truthy(cb)     == cb \in {"function", "string"}
IsCallable(cb) == cb = "function"

\* a variant of the call site that forwards the option steps
CallSiteSteps_Option == KwGet("steps", 4)

\* the value the call site passes as rk's parameter steps
CallSiteSteps == 4

----------------------------------------------------------------------------
(* The statements of dr_numpy, in program order *)

Raise(e) == pc' = "raised" /\ exc' = e

\* a variant of CheckCallback that tests "callback is not None"
CheckCallback_NotNone ==
    /\ pc = "callback_check"
    /\ IF args.callback # "None" /\ ~IsCallable(args.callback)
       THEN Raise("AssertionError")
       ELSE pc' = "configuration" /\ exc' = exc
    /\ UNCHANGED <<outside, first, args, kwargs, conf, arrays, iter, k, calls>>

\* if callback: assert callable(callback)
CheckCallback ==
    /\ pc = "callback_check"
    /\ IF Truthy(args.callback) /\ ~IsCallable(args.callback)
       THEN Raise("AssertionError")
       ELSE pc' = "configuration" /\ exc' = exc
    /\ UNCHANGED <<outside, first, args, kwargs, conf, arrays, iter, k, calls>>

\* the options section 7 of the specification calls bad
BadOptions ==
    \/ ~Less(Zero, KwGet("dt", One))
    \/ KwGet("kmax", 10000) < 1
    \/ ~Less(Zero, KwGet("tol1", Rat(1, 1000)))
    \/ ~Less(Zero, KwGet("tol2", Rat(1, 1000000)))
    \/ KwGet("steps", 4) \notin {1, 2, 4}
    \/ Less(KwGet("c", Rat(1, 10)), Zero)

\* a variant of Configure that validates the options first
Configure_Validating ==
    /\ pc = "configuration"
    /\ LET c == KwGet("c", Rat(1, 10))
       IN  IF BadOptions
           THEN Raise("ValueError") /\ conf' = conf
           ELSE /\ conf' = [kmax |-> KwGet("kmax", 10000),
                            dt   |-> KwGet("dt", One),
                            tol1 |-> KwGet("tol1", Rat(1, 1000)),
                            tol2 |-> KwGet("tol2", Rat(1, 1000000)),
                            ca   |-> CoeffA(c),
                            cb   |-> CoeffB(c)]
                /\ pc' = "arrays"
                /\ exc' = exc
    /\ UNCHANGED <<outside, first, args, kwargs, arrays, iter, k, calls>>

\* kmax, dt, tol1, tol2, coeff, ca, cb
Configure ==
    /\ pc = "configuration"
    /\ LET c == KwGet("c", Rat(1, 10))
       IN  IF CoeffDen(c) = Zero
           THEN Raise("ZeroDivisionError") /\ conf' = conf
           ELSE /\ conf' = [kmax |-> KwGet("kmax", 10000),
                            dt   |-> KwGet("dt", One),
                            tol1 |-> KwGet("tol1", Rat(1, 1000)),
                            tol2 |-> KwGet("tol2", Rat(1, 1000000)),
                            ca   |-> CoeffA(c),
                            cb   |-> CoeffB(c)]
                /\ pc' = "arrays"
                /\ exc' = exc
    /\ UNCHANGED <<outside, first, args, kwargs, arrays, iter, k, calls>>

\* A = 3.14159 * radius ** 2; EA = E * A
EA == [e \in Es |-> Mul(args.E[e], Mul(PiLit, Mul(args.radius[e], args.radius[e])))]

\* a variant of BuildArrays that fills linit as soon as one entry is zero
BuildArrays_AnyZero ==
    /\ pc = "arrays"
    /\ x' = args.vertices
    /\ l' = NormRow(CDot(args.vertices))
    /\ linit' = IF \E e \in Es : args.linit[e] = Zero
                THEN NormRow(CDot(args.vertices))
                ELSE args.linit
    /\ q' = [e \in Es |-> One]
    /\ f' = [e \in Es |-> Mul(One, l'[e])]
    /\ v' = [i \in Vs |-> ZeroRow]
    /\ r' = [i \in Vs |-> ZeroRow]
    /\ pc' = "for"
    /\ UNCHANGED <<outside, first, args, kwargs, exc, conf, iter, k, calls>>

\* a variant of BuildArrays that takes the positions relative to vertex 0
BuildArrays_Relative ==
    /\ pc = "arrays"
    /\ x' = [i \in Vs |-> [c \in Axes |-> Sub(args.vertices[i][c], args.vertices[0][c])]]
    /\ l' = NormRow(CDot(args.vertices))
    /\ linit' = IF \A e \in Es : args.linit[e] = Zero
                THEN NormRow(CDot(args.vertices))
                ELSE args.linit
    /\ q' = [e \in Es |-> One]
    /\ f' = [e \in Es |-> Mul(One, l'[e])]
    /\ v' = [i \in Vs |-> ZeroRow]
    /\ r' = [i \in Vs |-> ZeroRow]
    /\ pc' = "for"
    /\ UNCHANGED <<outside, first, args, kwargs, exc, conf, iter, k, calls>>

\* the arrays, the autofill of linit and the initial values
BuildArrays ==
    /\ pc = "arrays"
    /\ x' = args.vertices
    /\ l' = NormRow(CDot(args.vertices))
    /\ linit' = IF \A e \in Es : args.linit[e] = Zero
                THEN NormRow(CDot(args.vertices))
                ELSE args.linit
    /\ q' = [e \in Es |-> One]
    /\ f' = [e \in Es |-> Mul(One, l'[e])]
    /\ v' = [i \in Vs |-> ZeroRow]
    /\ r' = [i \in Vs |-> ZeroRow]
    /\ pc' = "for"
    /\ UNCHANGED <<outside, first, args, kwargs, exc, conf, iter, k, calls>>

\* for k in range(kmax): the next value of k, or the end of the loop
ForNext ==
    /\ pc = "for"
    /\ IF k + 1 < conf.kmax
       THEN k' = k + 1 /\ pc' = "assemble"
       ELSE k' = k /\ pc' = "returned"
    /\ UNCHANGED <<outside, first, args, kwargs, exc, conf, arrays, iter, calls>>

q_fpre == [e \in Es |-> Div(args.fpre[e], l[e])]

\* a variant of q_lpre that takes the force from the caller's qpre and the
\* current lengths instead of f
q_lpre_FromQpre == [e \in Es |-> Clean(Div(Mul(args.qpre[e], l[e]), args.lpre[e]))]

q_lpre == [e \in Es |-> Clean(Div(f[e], args.lpre[e]))]
q_EA   == [e \in Es |->
            Clean(Div(Mul(EA[e], Sub(l[e], linit[e])), Mul(linit[e], l[e])))]

\* qpre + q_fpre + q_lpre + last, per edge
EdgeSum(last) ==
    [e \in Es |-> Add(Add(Add(args.qpre[e], q_fpre[e]), q_lpre[e]), last[e])]

\* mass = 0.5 * dt ** 2 * Ct2.dot(qpre + q_fpre + q_lpre + EA / linit)
Mass ==
    LET w == EdgeSum([e \in Es |-> Div(EA[e], linit[e])])
    IN  [i \in Vs |-> Mul(Mul(Half, Mul(conf.dt, conf.dt)), Ct2Dot(w, i))]

\* the edge laws, q, mass, the snapshot x0, v0 and the call of rk
Assemble ==
    /\ pc = "assemble"
    /\ q' = EdgeSum(q_EA)
    /\ mass' = Mass
    /\ x0' = x
    /\ v0' = Scale(conf.ca, v)
    /\ steps' = CallSiteSteps
    /\ Ks' = <<>>
    /\ pc' = "rk"
    /\ UNCHANGED <<outside, first, args, kwargs, exc, conf, x, linit, l, f, v, r, dv, dx,
                   crit1, crit2, k, calls>>

----------------------------------------------------------------------------
(* rk and its helper a *)

\* a variant of AccX that assigns every row: x = x0 + dx
AccX_AllRows(xcur, xs0, t, vv) == AddRows(xs0, Scale(t, vv))

\* a variant of AccX that measures from the scratch positions: x[free] += dx[free]
AccX_FromScratch(xcur, xs0, t, vv) == SetRows(xcur, free, AddRows(xcur, Scale(t, vv)))

\* a, first half: dx = v * t; x[free] = x0[free] + dx[free]
AccX(xcur, xs0, t, vv) == SetRows(xcur, free, AddRows(xs0, Scale(t, vv)))

\* a, second half: r[free] = p[free] - D.dot(x)
AccR(rcur, xnew) ==
    SetRows(rcur, free,
            [i \in Vs |-> [c \in Axes |->
                Sub(args.loads[i][c], DDot(q, xnew, i)[c])]])

\* a variant of AccVal that lets a zero mass fall through as a zero
\* acceleration instead of dividing by it
AccVal_ZeroSafe(rnew) ==
    [i \in Vs |-> [c \in Axes |->
        IF mass[i] = Zero THEN Zero ELSE Div(Mul(conf.cb, rnew[i][c]), mass[i])]]

\* a, the value returned: cb * r / mass
AccVal(rnew) ==
    [i \in Vs |-> [c \in Axes |-> Div(Mul(conf.cb, rnew[i][c]), mass[i])]]

\* a variant of StageT with the first stage at 0 and every later one at dt
StageT_Full(s) == IF s = 0 THEN Mul(Zero, conf.dt) ELSE conf.dt

\* the time argument of stage s: K[s][0] * dt
StageT(s) == Mul(Kc(s, 0), conf.dt)

RECURSIVE StageSum(_, _, _)
\* v0 + K[s][1] * K0 + ... + K[s][n] * K(n-1), summed left to right
StageSum(s, ks, n) ==
    IF n = 0 THEN v0
    ELSE AddRows(StageSum(s, ks, n - 1), Scale(Kc(s, n), ks[n]))

\* the velocity argument of stage s
StageV(s, ks) == StageSum(s, ks, s)

\* B of the 2-stage and of the 4-stage scheme
B(n) == IF n = 2 THEN <<Zero, One>>
        ELSE <<Rat(1, 6), Rat(1, 3), Rat(1, 3), Rat(1, 6)>>

RECURSIVE Combine(_, _, _)
\* B[0] * K0 + ... + B[n-1] * K(n-1), summed left to right
Combine(b, ks, n) ==
    IF n = 1 THEN Scale(b[1], ks[1])
    ELSE AddRows(Combine(b, ks, n - 1), Scale(b[n], ks[n]))

\* one evaluation of a inside rk(x0, v0, steps); the last one returns dv
RkStage ==
    /\ pc = "rk"
    /\ IF steps \notin {1, 2, 4}
       THEN /\ Raise("NotImplementedError")
            /\ UNCHANGED <<x, r, Ks, dv>>
       ELSE LET s   == Len(Ks)
                t   == IF steps = 1 THEN conf.dt ELSE StageT(s)
                vv  == IF steps = 1 THEN v0 ELSE StageV(s, Ks)
                xn  == AccX(x, x0, t, vv)
                rn  == AccR(r, xn)
                val == AccVal(rn)
                kn  == IF steps = 1 THEN val ELSE Scale(conf.dt, val)
                ks  == Append(Ks, kn)
            IN  /\ x' = xn
                /\ r' = rn
                /\ Ks' = ks
                /\ IF Len(ks) = steps
                   THEN /\ dv' = IF steps = 1 THEN val ELSE Combine(B(steps), ks, steps)
                        /\ pc' = "update"
                   ELSE dv' = dv /\ pc' = "rk"
                /\ exc' = exc
    /\ UNCHANGED <<outside, first, args, kwargs, conf, linit, q, l, f, v, mass, x0, v0, steps,
                   dx, crit1, crit2, k, calls>>

----------------------------------------------------------------------------
(* The rest of the iteration *)

\* a variant of Residual that assigns the free rows only
Residual_FreeRows(qq, uu) ==
    [i \in Vs |-> IF i \in free
                  THEN [c \in Axes |-> Sub(args.loads[i][c], CtQDot(qq, uu, i)[c])]
                  ELSE r[i]]

\* r = p - Ct.dot(Q).dot(u), every row
Residual(qq, uu) ==
    [i \in Vs |-> [c \in Axes |-> Sub(args.loads[i][c], CtQDot(qq, uu, i)[c])]]

\* v[free], dx, x[free], then u, l, f, r
Update ==
    /\ pc = "update"
    /\ v' = SetRows(v, free, AddRows(v0, dv))
    /\ dx' = Scale(conf.dt, v')
    /\ x' = SetRows(x, free, AddRows(x0, dx'))
    /\ l' = NormRow(CDot(x'))
    /\ f' = [e \in Es |-> Mul(q[e], l'[e])]
    /\ r' = Residual(q, CDot(x'))
    /\ pc' = "crits"
    /\ UNCHANGED <<outside, first, args, kwargs, exc, conf, linit, q, mass, x0, v0, steps, Ks,
                   dv, crit1, crit2, k, calls>>

\* a variant of Crits whose norm does not check its argument (numpy's norm)
Crits_Unchecked ==
    /\ pc = "crits"
    /\ crit1' = Slice(r, free)
    /\ crit2' = Slice(dx, free)
    /\ pc' = "callback"
    /\ UNCHANGED <<outside, first, args, kwargs, exc, conf, arrays, mass, x0, v0, steps, Ks, dv, dx,
                   k, calls>>

\* crit1 = norm(r[free]); crit2 = norm(dx[free])
Crits ==
    /\ pc = "crits"
    /\ IF ~AllFinite(r, free)
       THEN Raise("ValueError") /\ UNCHANGED <<crit1, crit2>>
       ELSE /\ crit1' = Slice(r, free)
            /\ IF ~AllFinite(dx, free)
               THEN Raise("ValueError") /\ crit2' = crit2
               ELSE crit2' = Slice(dx, free) /\ pc' = "callback" /\ exc' = exc
    /\ UNCHANGED <<outside, first, args, kwargs, conf, arrays, mass, x0, v0, steps, Ks, dv, dx,
                   k, calls>>

\* a variant of Callback that tests convergence first and skips the
\* invocation in the iteration that converges
Callback_UnlessConverged ==
    /\ pc = "callback"
    /\ calls' = IF /\ Truthy(args.callback)
                   /\ ~(NormLess(crit1, conf.tol1) \/ NormLess(crit2, conf.tol2))
                THEN Append(calls, [k |-> k, x |-> x, crits |-> <<crit1, crit2>>])
                ELSE calls
    /\ pc' = "convergence"
    /\ UNCHANGED <<outside, first, args, kwargs, exc, conf, arrays, iter, k>>

\* if callback: callback(k, x, [crit1, crit2], callback_args)
Callback ==
    /\ pc = "callback"
    /\ calls' = IF Truthy(args.callback)
                THEN Append(calls, [k |-> k, x |-> x, crits |-> <<crit1, crit2>>])
                ELSE calls
    /\ pc' = "convergence"
    /\ UNCHANGED <<outside, first, args, kwargs, exc, conf, arrays, iter, k>>

\* a variant of Convergence that breaks only when both criteria are met
Convergence_Both ==
    /\ pc = "convergence"
    /\ pc' = IF NormLess(crit1, conf.tol1) /\ NormLess(crit2, conf.tol2)
             THEN "returned"
             ELSE "for"
    /\ UNCHANGED <<outside, first, args, kwargs, exc, conf, arrays, iter, k, calls>>

\* if crit1 < tol1: break; if crit2 < tol2: break
Convergence ==
    /\ pc = "convergence"
    /\ pc' = IF NormLess(crit1, conf.tol1) \/ NormLess(crit2, conf.tol2)
             THEN "returned"
             ELSE "for"
    /\ UNCHANGED <<outside, first, args, kwargs, exc, conf, arrays, iter, k, calls>>

----------------------------------------------------------------------------
(* No call of a smoothing function *)

SmoothIdle ==
    /\ smooth = <<>>
    /\ smooth_pc = "idle" /\ smooth_exc = "none" /\ smooth_k = -1
    /\ vertices = <<>> /\ vertices_0 = <<>>
    /\ face_centroid = <<>> /\ face_area = <<>>
    /\ todo = <<>> /\ smooth_calls = 0 /\ pass_start = <<>>

(* No call of determinant or inverse *)

HelperIdle ==
    /\ helper = <<>>
    /\ helper_pc = "idle" /\ helper_exc = "none"
    /\ detM = 0 /\ helper_out = <<>>

----------------------------------------------------------------------------
(* The calls explored *)

\* the largest kmax passed
MaxKmax == 2

\* a list as the source indexes it, from 0
Arr(seq) == [i \in 0..(Len(seq) - 1) |-> seq[i + 1]]

\* a row with the given first component, the others zero
Row(a) == <<Int2F(a), Zero, Zero>>

\* a modulus for which E * 3.14159 * 1 ** 2 is 1
EUnit == Rat(100000, 314159)

\* three vertices on the first axis; the second choice collapses edge (0, 1)
VertexChoices == { Arr(<<Row(0), Row(1), Row(2)>>), Arr(<<Row(0), Row(0), Row(2)>>) }

\* a chain, or a single bar with vertex 2 isolated
EdgeChoices == { Arr(<< <<0, 1>>, <<1, 2>> >>), Arr(<< <<0, 1>> >>) }

FixedChoices == { {0, 2}, {0}, {0, 1}, {}, {0, 1, 2} }

LoadChoices == { Arr(<<Row(a), Row(a), Row(a)>>) : a \in {0, 2} }

\* the same value on every edge
Uniform(edges, val) == [e \in DOMAIN edges |-> val]

LinitChoices(edges) ==
    { Uniform(edges, Zero), Uniform(edges, One),
      [e \in DOMAIN edges |-> IF e = 0 THEN Zero ELSE One] }

ArgsChoices ==
    { [vertices |-> vs, edges |-> es, fixed |-> fx, loads |-> ld,
       qpre |-> Uniform(es, qp), fpre |-> Uniform(es, fp), lpre |-> Uniform(es, lp),
       linit |-> li, E |-> Uniform(es, em), radius |-> Uniform(es, One),
       callback |-> "function"] :
         vs \in VertexChoices, es \in EdgeChoices, fx \in FixedChoices,
         ld \in LoadChoices, qp \in {Zero, One}, fp \in {Zero, One},
         lp \in {Zero, One}, em \in {Zero, EUnit},
         li \in UNION { LinitChoices(e2) : e2 \in EdgeChoices } }

WellShaped(a) == DOMAIN a.linit = DOMAIN a.edges

\* a chain with fixed ends and unit force densities: at rest without load,
\* pulled along the axis with it
BaseArgs(load) ==
    [vertices |-> Arr(<<Row(0), Row(1), Row(2)>>),
     edges |-> Arr(<< <<0, 1>>, <<1, 2>> >>),
     fixed |-> {0, 2},
     loads |-> Arr(<<Row(load), Row(load), Row(load)>>),
     qpre |-> Arr(<<One, One>>), fpre |-> Arr(<<Zero, Zero>>),
     lpre |-> Arr(<<Zero, Zero>>), linit |-> Arr(<<Zero, Zero>>),
     E |-> Arr(<<Zero, Zero>>), radius |-> Arr(<<One, One>>),
     callback |-> "function"]

BaseKwargs ==
    [kmax |-> MaxKmax, dt |-> One, tol1 |-> Rat(1, 1000),
     tol2 |-> Rat(1, 1000000), c |-> Zero]

\* keyword options: all five numeric ones given, steps given or not
OptionChoices ==
    { [kmax |-> km, dt |-> d, tol1 |-> t1, tol2 |-> t2, c |-> cc] :
        km \in 0..MaxKmax, d \in {One, Zero, Neg(One)},
        t1 \in {Rat(1, 1000), Zero}, t2 \in {Rat(1, 1000000), Zero, Int2F(10)},
        cc \in {Zero, Neg(One), Int2F(-2)} }

WithSteps(kw, st) ==
    [key \in DOMAIN kw \cup {"steps"} |-> IF key = "steps" THEN st ELSE kw[key]]

KwargsChoices ==
    OptionChoices \cup { WithSteps(kw, st) : kw \in OptionChoices, st \in {2, 3} }

\* only the prescribed force densities act: the values stay small enough
\* (32-bit numerators) to follow several iterations
QpreOnly(a) ==
    \A e \in DOMAIN a.edges : a.fpre[e] = Zero /\ a.lpre[e] = Zero /\ a.E[e] = Zero

CallbackChoices == {"None", "function", "string", "zero"}

Init ==
    /\ \/ /\ args \in { a \in ArgsChoices : WellShaped(a) }
          /\ kwargs = [BaseKwargs EXCEPT !.kmax = IF QpreOnly(args) THEN MaxKmax ELSE 1]
       \/ /\ args \in { BaseArgs(0), BaseArgs(2) }
          /\ kwargs \in KwargsChoices
       \/ /\ \E cb \in CallbackChoices, ld \in {0, 2} :
                args = [BaseArgs(ld) EXCEPT !.callback = cb]
          /\ kwargs \in { BaseKwargs, [kmax |-> 1], [kmax |-> 1, steps |-> 2] }
       \/ /\ \E cb \in CallbackChoices : args = [BaseArgs(0) EXCEPT !.callback = cb]
          /\ kwargs = <<>>
    /\ pc = "callback_check"
    /\ exc = "none"
    /\ conf = <<>>
    /\ x = <<>> /\ linit = <<>> /\ q = <<>> /\ l = <<>> /\ f = <<>>
    /\ v = <<>> /\ r = <<>>
    /\ mass = <<>> /\ x0 = <<>> /\ v0 = <<>> /\ steps = 0 /\ Ks = <<>>
    /\ dv = <<>> /\ dx = <<>>
    /\ k = -1
    /\ crit1 = <<>> /\ crit2 = <<>>
    /\ calls = <<>>
    /\ first = <<>>
    /\ SmoothIdle
    /\ HelperIdle

Next ==
    \/ CheckCallback
    \/ Configure
    \/ BuildArrays
    \/ ForNext
    \/ Assemble
    \/ RkStage
    \/ Update
    \/ Crits
    \/ Callback
    \/ Convergence

Spec == Init /\ [][Next]_vars


----------------------------------------------------------------------------
(* A caller that calls dr_numpy a second time on a translated network *)

\* the translations tried: along the axis of the network, which keeps the
\* vertices on that axis and the edge lengths rational
ShiftChoices == { <<One, Zero, Zero>>, <<Int2F(-2), Zero, Zero>> }

\* A with the vector t added to every row
ShiftRows(A, t) == [i \in DOMAIN A |-> [c \in Axes |-> Add(A[i][c], t[c])]]

\* the first call has ended; the caller keeps its outcome and calls again
\* with t added to every vertex position and, if withLoads, to every load
\* (calls of at most MaxKmax iterations are compared)
Rerun ==
    /\ pc \in {"returned", "raised"}
    /\ first = <<>>
    /\ KwGet("kmax", 10000) <= MaxKmax
    /\ \E t \in ShiftChoices, withLoads \in BOOLEAN :
          /\ first' = [x |-> x, k |-> k, pc |-> pc, exc |-> exc,
                       t |-> t, withLoads |-> withLoads]
          /\ args' = [args EXCEPT
                        !.vertices = ShiftRows(@, t),
                        !.loads = IF withLoads THEN ShiftRows(@, t) ELSE @]
    /\ pc' = "callback_check"
    /\ exc' = "none"
    /\ conf' = <<>>
    /\ x' = <<>> /\ linit' = <<>> /\ q' = <<>> /\ l' = <<>> /\ f' = <<>>
    /\ v' = <<>> /\ r' = <<>>
    /\ mass' = <<>> /\ x0' = <<>> /\ v0' = <<>> /\ steps' = 0 /\ Ks' = <<>>
    /\ dv' = <<>> /\ dx' = <<>>
    /\ k' = -1
    /\ crit1' = <<>> /\ crit2' = <<>>
    /\ calls' = <<>>
    /\ UNCHANGED <<outside, kwargs>>

NextTwoCalls ==
    \/ Next
    \/ Rerun

SpecTwoCalls == Init /\ [][NextTwoCalls]_vars


----------------------------------------------------------------------------
(* smoothing.py: smooth_centroid, smooth_centerofmass, smooth_area *)

\* the value None among face keys
NoneKey == -1

\* fixed = fixed or []; fixed = set(fixed): None and an empty list both
\* give the empty set
smooth_fixed == smooth.fixed

RECURSIVE SumSeq(_, _)
\* sum(s[1..n]), from the left, starting at 0
SumSeq(s, n) == IF n = 0 THEN Zero ELSE Add(SumSeq(s, n - 1), s[n])

\* centroid_points(points): sum(x) / p, sum(y) / p, sum(z) / p
centroid_points(points) ==
    [c \in Axes |->
        Div(SumSeq([n \in 1..Len(points) |-> points[n][c]], Len(points)),
            Int2F(Len(points)))]

subtract_vectors(u, w) == [c \in Axes |-> Sub(u[c], w[c])]

cross_vectors(u, w) ==
    <<Sub(Mul(u[2], w[3]), Mul(u[3], w[2])),
      Sub(Mul(u[3], w[1]), Mul(u[1], w[3])),
      Sub(Mul(u[1], w[2]), Mul(u[2], w[1]))>>

distance_point_point(a, b) == RowNorm(subtract_vectors(b, a))

\* the point before polygon[n], cyclically: the loop starts at polygon[-1]
PolyPrev(polygon, n) == polygon[IF n = 1 THEN Len(polygon) ELSE n - 1]

\* L of center_of_mass_polygon: the length of the closed polygon
PolyLength(polygon) ==
    SumSeq([n \in 1..Len(polygon) |->
               distance_point_point(PolyPrev(polygon, n), polygon[n])],
           Len(polygon))

\* center_of_mass_polygon(polygon): the midpoints of the edges weighted by
\* their lengths, divided by L (a zero L is a ZeroDivisionError)
center_of_mass_polygon(polygon) ==
    [c \in Axes |->
        Div(SumSeq([n \in 1..Len(polygon) |->
                       Mul(Mul(Half, distance_point_point(PolyPrev(polygon, n), polygon[n])),
                           Add(PolyPrev(polygon, n)[c], polygon[n][c]))],
                   Len(polygon)),
            PolyLength(polygon))]

\* area_polygon(polygon): half the lengths of the cross products of the
\* consecutive spokes from the centroid
area_polygon(polygon) ==
    LET o == centroid_points(polygon)
        spoke(n) == subtract_vectors(polygon[n], o)
    IN  SumSeq([n \in 1..Len(polygon) |->
                   Mul(Half, RowNorm(cross_vectors(
                       spoke(IF n = 1 THEN Len(polygon) ELSE n - 1), spoke(n))))],
               Len(polygon))

\* vertices_0[key]: the dict comprehension copies the dict, not the lists, so
\* the entry is the list object of vertices[key] with its current contents
Point0(key) == vertices[vertices_0[key]]

\* [vertices_0[nbr] for nbr in nbrs]
NbrPoints(key) ==
    [n \in 1..Len(smooth.adjacency[key]) |-> Point0(smooth.adjacency[key][n])]

\* the faces of adjacency[key] that are not None
FacesOf(key) ==
    SelectSeq(smooth.adjacency[key], LAMBDA fkey : fkey # NoneKey)

\* x, y, z of smooth_area: the face centroids weighted by the face areas,
\* divided by the sum A of the areas if A is truthy
AreaTarget(key, cen, area) ==
    LET fs == FacesOf(key)
        A  == SumSeq([n \in 1..Len(fs) |-> area[fs[n]]], Len(fs))
    IN  [c \in Axes |->
            LET w == SumSeq([n \in 1..Len(fs) |-> Mul(area[fs[n]], cen[fs[n]][c])],
                            Len(fs))
            IN  IF A # Zero THEN Div(w, A) ELSE w]

\* the target of vertex key
Target(key) ==
    IF smooth.fn = "smooth_centroid" THEN centroid_points(NbrPoints(key))
    ELSE IF smooth.fn = "smooth_centerofmass" THEN center_of_mass_polygon(NbrPoints(key))
    ELSE AreaTarget(key, face_centroid, face_area)

\* the evaluation of the target divides by zero
TargetRaises(key) ==
    /\ smooth.fn = "smooth_centerofmass"
    /\ PolyLength(NbrPoints(key)) = Zero

\* a variant of Skips that skips no vertex
Skips_Never(key) == FALSE

\* if key in fixed: continue
Skips(key) == key \in smooth_fixed

\* [vertices[key] for key in keys] of a face, for positions P
FacePoints(P, fkey) ==
    [n \in 1..Len(smooth.faces[fkey]) |-> P[smooth.faces[fkey][n]]]

\* face_centroid of smooth_area
FaceCentroids(P) ==
    [fkey \in DOMAIN smooth.faces |-> centroid_points(FacePoints(P, fkey))]

\* face_area of smooth_area
FaceAreas(P) ==
    [fkey \in DOMAIN smooth.faces |-> area_polygon(FacePoints(P, fkey))]

\* if callback: if not callable(callback): raise Exception
SmoothCheck ==
    /\ smooth_pc = "callback_check"
    /\ IF Truthy(smooth.callback) /\ ~IsCallable(smooth.callback)
       THEN smooth_pc' = "raised" /\ smooth_exc' = "Exception"
       ELSE smooth_pc' = "for" /\ smooth_exc' = smooth_exc
    /\ UNCHANGED <<smooth, smooth_k, vertices, vertices_0, face_centroid, face_area,
                   todo, smooth_calls, pass_start>>
    /\ UNCHANGED besideSmoothing

\* for k in range(kmax): vertices_0, and in smooth_area the face dicts
SmoothPass ==
    /\ smooth_pc = "for"
    /\ IF smooth_k + 1 < smooth.kmax
       THEN /\ smooth_k' = smooth_k + 1
            /\ vertices_0' = [key \in DOMAIN vertices |-> key]
            /\ pass_start' = vertices
            /\ IF smooth.fn = "smooth_area"
               THEN /\ face_centroid' = FaceCentroids(vertices)
                    /\ face_area' = FaceAreas(vertices)
               ELSE UNCHANGED <<face_centroid, face_area>>
            /\ todo' = smooth.order
            /\ smooth_pc' = "vertex"
       ELSE /\ smooth_pc' = "returned"
            /\ UNCHANGED <<smooth_k, vertices_0, pass_start, face_centroid, face_area, todo>>
    /\ UNCHANGED <<smooth, smooth_exc, vertices, smooth_calls>>
    /\ UNCHANGED besideSmoothing

\* one turn of the loop over vertices_0.items()
SmoothVertex ==
    /\ smooth_pc = "vertex"
    /\ todo # <<>>
    /\ LET key == Head(todo)
       IN  IF Skips(key)
           THEN UNCHANGED <<vertices, smooth_pc, smooth_exc>>
           ELSE IF TargetRaises(key)
           THEN /\ smooth_pc' = "raised" /\ smooth_exc' = "ZeroDivisionError"
                /\ UNCHANGED vertices
           ELSE /\ vertices' =
                      [vertices EXCEPT ![key] =
                          [c \in Axes |->
                              Add(vertices[key][c],
                                  Mul(smooth.damping, Sub(Target(key)[c], Point0(key)[c])))]]
                /\ UNCHANGED <<smooth_pc, smooth_exc>>
    /\ todo' = Tail(todo)
    /\ UNCHANGED <<smooth, smooth_k, vertices_0, face_centroid, face_area,
                   smooth_calls, pass_start>>
    /\ UNCHANGED besideSmoothing

\* if callback: callback(vertices, k, callback_args)
SmoothCallback ==
    /\ smooth_pc = "vertex"
    /\ todo = <<>>
    /\ smooth_calls' = IF Truthy(smooth.callback) THEN smooth_calls + 1 ELSE smooth_calls
    /\ smooth_pc' = "for"
    /\ UNCHANGED <<smooth, smooth_exc, smooth_k, vertices, vertices_0, face_centroid,
                   face_area, todo, pass_start>>
    /\ UNCHANGED besideSmoothing

\* no call of dr_numpy
DrIdle ==
    /\ args = <<>> /\ kwargs = <<>> /\ first = <<>>
    /\ pc = "idle" /\ exc = "none" /\ conf = <<>>
    /\ x = <<>> /\ linit = <<>> /\ q = <<>> /\ l = <<>> /\ f = <<>>
    /\ v = <<>> /\ r = <<>>
    /\ mass = <<>> /\ x0 = <<>> /\ v0 = <<>> /\ steps = 0 /\ Ks = <<>>
    /\ dv = <<>> /\ dx = <<>>
    /\ k = -1
    /\ crit1 = <<>> /\ crit2 = <<>>
    /\ calls = <<>>

\* the largest kmax of a smoothing call
MaxPasses == 2

\* the neighbours of four vertices, as a chain or all adjacent to each other
NeighbourChoices ==
    { Arr(<< <<1>>, <<0, 2>>, <<1, 3>>, <<2>> >>),
      Arr(<< <<1, 2, 3>>, <<0, 2, 3>>, <<0, 1, 3>>, <<0, 1, 2>> >>) }

SmoothFixedChoices == { {}, {0, 3}, {0}, {0, 2, 3} }

\* the orders in which the dict yields its keys
OrderChoices == { <<0, 1, 2, 3>>, <<3, 2, 1, 0>>, <<1, 2, 0, 3>>, <<2, 0, 3, 1>> }

\* the calls explored: four vertices on a line, as a chain or all adjacent
\* to each other, for smooth_centroid and smooth_centerofmass; a quadrilateral
\* in the plane z = 0 made of two triangles, with the faces of every vertex
\* and a None on the boundary, for smooth_area
SmoothChoices ==
    LET LinePoints == Arr(<<Row(0), Row(1), Row(3), Row(6)>>)
        QuadPoints ==
            Arr(<< <<Zero, Zero, Zero>>, <<Int2F(2), Zero, Zero>>,
                   <<Int2F(3), Int2F(2), Zero>>, <<Zero, Int2F(2), Zero>> >>)
        QuadFaces == Arr(<< <<0, 1, 2>>, <<0, 2, 3>> >>)
        QuadVertexFaces == Arr(<< <<0, 1>>, <<0, NoneKey>>, <<0, 1>>, <<1, NoneKey>> >>)
    IN
    { [fn |-> "smooth_area", vertices |-> QuadPoints, faces |-> QuadFaces,
       adjacency |-> QuadVertexFaces, fixed |-> fx, kmax |-> km, damping |-> d,
       callback |-> cb, order |-> ord] :
         fx \in SmoothFixedChoices, km \in 0..MaxPasses, d \in {Half, One},
         cb \in {"None", "function", "string"}, ord \in OrderChoices }
    \cup
    { [fn |-> fn, vertices |-> LinePoints, faces |-> <<>>,
       adjacency |-> adj, fixed |-> fx, kmax |-> km, damping |-> d,
       callback |-> cb, order |-> ord] :
         fn \in {"smooth_centroid", "smooth_centerofmass"}, adj \in NeighbourChoices,
         fx \in SmoothFixedChoices, km \in 0..MaxPasses, d \in {Half, One},
         cb \in {"None", "function", "string"}, ord \in OrderChoices }

InitSmooth ==
    /\ DrIdle
    /\ HelperIdle
    /\ smooth \in SmoothChoices
    /\ smooth_pc = "callback_check" /\ smooth_exc = "none" /\ smooth_k = -1
    /\ vertices = smooth.vertices
    /\ vertices_0 = <<>>
    /\ face_centroid = <<>> /\ face_area = <<>>
    /\ todo = <<>> /\ smooth_calls = 0 /\ pass_start = <<>>

NextSmooth ==
    \/ SmoothCheck
    \/ SmoothPass
    \/ SmoothVertex
    \/ SmoothCallback

SpecSmooth == InitSmooth /\ [][NextSmooth]_vars


----------------------------------------------------------------------------
(* transformations/helpers.py: determinant, inverse *)

\* for c in M: if len(c) != dim
NotSquare(M) == \E i \in 1..Len(M) : Len(M[i]) # Len(M)

\* M1 of determinant: the rows after the first without column t; and
\* matrix_minor(m, i, j) of inverse
matrix_minor(M, i, j) ==
    [a \in 1..(Len(M) - 1) |->
        [b \in 1..(Len(M) - 1) |->
            M[IF a < i THEN a ELSE a + 1][IF b < j THEN b ELSE b + 1]]]

RECURSIVE LaplaceSum(_, _)
RECURSIVE determinant(_)
\* sum after the turns t = 0 .. n-1 of the loop, i alternating from 1
LaplaceSum(M, n) ==
    IF n = 0 THEN 0
    ELSE LaplaceSum(M, n - 1)
         + (IF n % 2 = 1 THEN 1 ELSE -1) * M[1][n] * determinant(matrix_minor(M, 1, n))

\* determinant(M, check=False): the closed form for dim 2, otherwise the
\* expansion along the first row, which is the empty sum 0 for dim 0
determinant(M) ==
    IF Len(M) = 2
    THEN M[1][1] * M[2][2] - M[1][2] * M[2][1]
    ELSE LaplaceSum(M, Len(M))

\* transpose_matrix(M)
transpose_matrix(M) == [a \in 1..Len(M) |-> [b \in 1..Len(M) |-> M[b][a]]]

\* (-1) ** n
MinusOnePow(n) == IF n % 2 = 0 THEN 1 ELSE -1

\* the value inverse returns for a divisor d that is not zero
InverseValue(M, d) ==
    IF Len(M) = 2
    THEN << <<Rat(M[2][2], d), Rat(-1 * M[1][2], d)>>,
            <<Rat(-1 * M[2][1], d), Rat(M[1][1], d)>> >>
    ELSE LET cofactors ==
                 [a \in 1..Len(M) |->
                     [b \in 1..Len(M) |->
                         MinusOnePow(a + b) * determinant(matrix_minor(M, a, b))]]
         IN  [a \in 1..Len(M) |->
                 [b \in 1..Len(M) |-> Rat(transpose_matrix(cofactors)[a][b], d)]]

\* determinant(M, check)
DeterminantCall ==
    /\ helper # <<>> /\ helper.fn = "determinant"
    /\ helper_pc = "call"
    /\ IF helper.check /\ NotSquare(helper.M)
       THEN /\ helper_pc' = "raised" /\ helper_exc' = "ValueError"
            /\ UNCHANGED helper_out
       ELSE /\ helper_pc' = "returned"
            /\ helper_out' = determinant(helper.M)
            /\ UNCHANGED helper_exc
    /\ UNCHANGED <<helper, detM>>
    /\ UNCHANGED <<drVars, smoothVars>>

\* inverse: detM = determinant(M)
InverseDeterminant ==
    /\ helper # <<>> /\ helper.fn = "inverse"
    /\ helper_pc = "call"
    /\ IF NotSquare(helper.M)
       THEN /\ helper_pc' = "raised" /\ helper_exc' = "ValueError"
            /\ UNCHANGED detM
       ELSE /\ helper_pc' = "singular_test"
            /\ detM' = determinant(helper.M)
            /\ UNCHANGED helper_exc
    /\ UNCHANGED <<helper, helper_out>>
    /\ UNCHANGED <<drVars, smoothVars>>

\* inverse: if detM == 0: ValueError("The matrix is singular.") -- the
\* exception is constructed and dropped, there is no raise
InverseSingularTest ==
    /\ helper_pc = "singular_test"
    /\ helper_pc' = "divide"
    /\ UNCHANGED <<helper, helper_exc, detM, helper_out>>
    /\ UNCHANGED <<drVars, smoothVars>>

\* inverse: the entries or the cofactors divided by detM
InverseDivide ==
    /\ helper_pc = "divide"
    /\ IF detM = 0
       THEN /\ helper_pc' = "raised" /\ helper_exc' = "ZeroDivisionError"
            /\ UNCHANGED helper_out
       ELSE /\ helper_pc' = "returned"
            /\ helper_out' = InverseValue(helper.M, detM)
            /\ UNCHANGED helper_exc
    /\ UNCHANGED <<helper, detM>>
    /\ UNCHANGED <<drVars, smoothVars>>

\* the largest number of rows of M
MaxDim == 3

\* the entries of an n x n matrix
Entries(n) == IF n <= 2 THEN -2..2 ELSE 0..1

SquareChoices == UNION { [1..n -> [1..n -> Entries(n)]] : n \in 1..MaxDim }

\* one or two rows of one to three entries that do not make a square
RaggedChoices ==
    { M \in UNION { [1..n -> UNION { [1..c -> 0..1] : c \in 1..3 }] : n \in 1..2 } :
        NotSquare(M) }

HelperChoices ==
    { [fn |-> fn, M |-> M, check |-> ch] :
        fn \in {"determinant", "inverse"}, M \in SquareChoices, ch \in BOOLEAN }
    \cup
    { [fn |-> fn, M |-> M, check |-> TRUE] :
        fn \in {"determinant", "inverse"}, M \in RaggedChoices }

InitHelpers ==
    /\ DrIdle
    /\ SmoothIdle
    /\ helper \in { h \in HelperChoices : h.fn = "inverse" => h.check }
    /\ helper_pc = "call" /\ helper_exc = "none"
    /\ detM = 0 /\ helper_out = <<>>

NextHelpers ==
    \/ DeterminantCall
    \/ InverseDeterminant
    \/ InverseSingularTest
    \/ InverseDivide

SpecHelpers == InitHelpers /\ [][NextHelpers]_vars


----------------------------------------------------------------------------
(* rk called with the other stage counts it accepts or rejects *)

\* the values of the parameter steps of rk besides the 4 of the call site:
\* the two other schemes and a count without a scheme
OtherSteps == {1, 2, 3}

\* the edge laws, q, mass, the snapshot x0, v0 and a call rk(x0, v0, steps=st)
CallRk ==
    /\ pc = "assemble"
    /\ q' = EdgeSum(q_EA)
    /\ mass' = Mass
    /\ x0' = x
    /\ v0' = Scale(conf.ca, v)
    /\ \E st \in OtherSteps : steps' = st
    /\ Ks' = <<>>
    /\ pc' = "rk"
    /\ UNCHANGED <<outside, first, args, kwargs, exc, conf, x, linit, l, f, v, r, dv, dx,
                   crit1, crit2, k, calls>>

NextRk ==
    \/ Next
    \/ CallRk

SpecRk == Init /\ [][NextRk]_vars


----------------------------------------------------------------------------
(* Calls with prescribed lengths, followed over several iterations *)

\* networks on which lpre acts, alone or with qpre, on straight edges
LpreArgs ==
    { a \in ArgsChoices :
        /\ WellShaped(a)
        /\ a.vertices = Arr(<<Row(0), Row(1), Row(2)>>)
        /\ \A e \in DOMAIN a.edges :
              a.lpre[e] = One /\ a.fpre[e] = Zero /\ a.E[e] = Zero }

\* two iterations: the second assembles with the f the first one left
InitLpre ==
    /\ args \in LpreArgs
    /\ kwargs = [BaseKwargs EXCEPT !.kmax = 2]
    /\ pc = "callback_check"
    /\ exc = "none"
    /\ conf = <<>>
    /\ x = <<>> /\ linit = <<>> /\ q = <<>> /\ l = <<>> /\ f = <<>>
    /\ v = <<>> /\ r = <<>>
    /\ mass = <<>> /\ x0 = <<>> /\ v0 = <<>> /\ steps = 0 /\ Ks = <<>>
    /\ dv = <<>> /\ dx = <<>>
    /\ k = -1
    /\ crit1 = <<>> /\ crit2 = <<>>
    /\ calls = <<>>
    /\ first = <<>>
    /\ SmoothIdle
    /\ HelperIdle

SpecLpre == InitLpre /\ [][Next]_vars


----------------------------------------------------------------------------
(* Claims *)

\* the positions of one iteration, from the edge laws to the convergence test
InIteration == pc \in {"assemble", "rk", "update", "crits", "callback", "convergence"}

\* the arrays exist
Built == x # <<>>

\* the convergence test of the iteration just computed succeeds
Met == NormLess(crit1, conf.tol1) \/ NormLess(crit2, conf.tol2)

\* C1: at every position of dr_numpy, inside the Runge-Kutta stages too, the
\* rows of x at the fixed indices hold the input coordinates and the rows of v
\* at the fixed indices are zero.
C1_FixedRowsKept ==
    Built => \A i \in args.fixed :
                /\ x[i] = args.vertices[i]
                /\ v[i] = ZeroRow

\* a second iteration is inside rk, the free rows have moved and the
\* residual on a fixed row is not zero
C1_Witness ==
    /\ pc = "rk" /\ k = 1 /\ Len(Ks) = 2
    /\ args.fixed # {} /\ free # {}
    /\ \E i \in free : x[i] # args.vertices[i] /\ v[i] # ZeroRow
    /\ \E i \in args.fixed : r[i] # ZeroRow

\* C2: the loop runs k = 0, 1, ... below kmax; it goes on to the next
\* iteration only when neither criterion was met, and it returns, without an
\* exception, after the first iteration that meets crit1 < tol1 or crit2 < tol2
\* or has k + 1 = kmax; without iterations only when kmax < 1.
C2_StopsAtFirstMet ==
    /\ InIteration => 0 <= k /\ k < conf.kmax
    /\ (pc = "for" /\ k >= 0) => ~Met
    /\ (pc = "returned" /\ k >= 0) => (Met \/ k + 1 = conf.kmax)
    /\ (pc = "returned" /\ k = -1) => conf.kmax < 1
    /\ pc = "returned" => exc = "none"

\* the second iteration was the last allowed one, neither tolerance was met
\* and the driver has returned
C2_Witness ==
    /\ pc = "returned" /\ exc = "none"
    /\ k = 1 /\ conf.kmax = 2
    /\ ~Met

\* C3: a provided callback has been invoked once for every iteration that got
\* past its position update and crits, with k = 0, 1, 2, ... in order; the
\* invocation of iteration k precedes the convergence test of iteration k and
\* receives the updated x and the crits just computed; on return the number
\* of invocations is the number of iterations executed.
C3_CallbackEveryIteration ==
    Truthy(args.callback) =>
        /\ \A n \in 1..Len(calls) : calls[n].k = n - 1
        /\ pc \in {"assemble", "rk", "update", "crits", "callback"} => Len(calls) = k
        /\ pc \in {"convergence", "for", "returned"} => Len(calls) = k + 1
        /\ pc = "raised" => Len(calls) = (IF k < 0 THEN 0 ELSE k)
        /\ pc = "convergence" =>
              /\ calls[Len(calls)].x = x
              /\ calls[Len(calls)].crits = <<crit1, crit2>>

\* the driver returned after two iterations, the first one not converged,
\* and the callback was invoked in both
C3_Witness ==
    /\ Truthy(args.callback)
    /\ pc = "returned" /\ k = 1
    /\ Len(calls) = 2 /\ calls[2].k = 1 /\ calls[2].x = x

\* an iteration has completed its update and its crits without an exception
IterationDone ==
    \/ pc \in {"callback", "convergence"}
    \/ pc \in {"for", "returned"} /\ k >= 0

\* C4: at the end of every iteration q[e] is finite for every edge e (each
\* dividing edge law contributes zero in a row whose divisor is zero).
C4_QFinite ==
    IterationDone => \A e \in Es : IsFinite(q[e])

\* the input of C5: no load, no prestress, no stiffness, distinct end points,
\* at least one free vertex
MotionlessInput ==
    /\ \A i \in Vs : args.loads[i] = ZeroRow
    /\ \A e \in Es :
          /\ args.qpre[e] = Zero /\ args.fpre[e] = Zero /\ args.lpre[e] = Zero
          /\ args.linit[e] = Zero /\ EA[e] = Zero
          /\ args.vertices[args.edges[e][1]] # args.vertices[args.edges[e][2]]
    /\ free # {}

\* C5 as stated: on such an input v stays zero and x stays at the input
\* positions, whatever the number of iterations.
C5_StaysAtRest ==
    (MotionlessInput /\ Built) =>
        /\ x = args.vertices
        /\ v = [i \in Vs |-> ZeroRow]

\* C5 as amended: on such an input every lumped mass is zero, the first
\* iteration writes NaN into free rows of x and v, and the call ends inside
\* iteration 0 with the ValueError of norm; it never reaches the callback and
\* never returns.
C5_AbortsInFirstIteration ==
    (MotionlessInput /\ conf # <<>> /\ conf.kmax >= 1) =>
        /\ pc \in {"arrays", "for", "assemble", "rk", "update", "crits", "raised"}
        /\ k <= 0
        /\ calls = <<>>
        /\ mass # <<>> => \A i \in Vs : mass[i] = Zero
        /\ pc \in {"crits", "raised"} =>
              \A i \in free : \A c \in Axes : IsNaN(x[i][c]) /\ IsNaN(v[i][c])
        /\ pc = "raised" => exc = "ValueError" /\ k = 0

\* the call on a motionless input has ended with the ValueError
C5_Witness ==
    /\ MotionlessInput
    /\ pc = "raised" /\ exc = "ValueError" /\ k = 0
    /\ \E i \in free : IsNaN(x[i][1])

\* the mass of the current iteration is zero at a free vertex
ZeroFreeMass == mass # <<>> /\ \E i \in free : mass[i] = Zero

\* C6 as stated: a zero mass at a free vertex is reported instead of being
\* divided by: a is not evaluated with it and no velocity or position
\* becomes non-finite.
C6_ReportedNotDivided ==
    ZeroFreeMass =>
        /\ Ks = <<>>
        /\ AllFinite(v, free) /\ AllFinite(x, free)

\* C6 as amended: the iteration that computes a zero mass at a free vertex
\* does divide by it, and ends, before its callback and its convergence test,
\* with the ValueError norm raises for the non-finite dx[free] (or r[free]);
\* no later iteration starts.
C6_RaisedInSameIteration ==
    ZeroFreeMass =>
        /\ pc \in {"rk", "update", "crits", "raised"}
        /\ Len(calls) = k
        /\ pc \in {"crits", "raised"} => ~AllFinite(v, free) /\ ~AllFinite(dx, free)
        /\ pc = "raised" => exc = "ValueError"

\* a loaded input whose isolated free vertex has no mass ended with the
\* ValueError in iteration 0
C6_Witness ==
    /\ ZeroFreeMass /\ ~MotionlessInput
    /\ \E i \in Vs : mass[i] # Zero
    /\ pc = "raised" /\ exc = "ValueError" /\ k = 0

C8_StepsOptionUsed ==
    (pc \in {"rk", "update"} /\ KwGet("steps", 4) \in {1, 2, 4}) =>
        /\ steps = KwGet("steps", 4)
        /\ pc = "update" => Len(Ks) = KwGet("steps", 4)

\* C8 as amended: rk always runs with 4 stages, whatever option steps is
\* given or omitted.
C8_AlwaysFourStages ==
    /\ pc = "rk" => steps = 4 /\ Len(Ks) < 4
    /\ pc \in {"update", "crits", "callback", "convergence"} => steps = 4 /\ Len(Ks) = 4

\* a call with steps = 2 has run the four stages
C8_Witness ==
    /\ KwGet("steps", 4) = 2
    /\ pc = "update" /\ Len(Ks) = 4

\* the positions the claim gives a(t, vel): the free rows at
\* x0[free] + (vel * t)[free], the other rows as in the snapshot
C9_X(t, vel) ==
    [i \in Vs |-> IF i \in free
                  THEN [c \in Axes |-> Add(x0[i][c], Mul(vel[i][c], t))]
                  ELSE x0[i]]

\* the value the claim gives a(t, vel): cb * r / mass, r recomputed on the
\* free rows from those positions
C9_A(t, vel) ==
    [i \in Vs |-> [c \in Axes |->
        Div(Mul(conf.cb, IF i \in free
                         THEN Sub(args.loads[i][c], DDot(q, C9_X(t, vel), i)[c])
                         ELSE r[i][c]),
            mass[i])]]

C9_K0 == Scale(conf.dt, C9_A(Zero, v0))
C9_K1 == Scale(conf.dt, C9_A(Mul(Half, conf.dt), AddRows(v0, Scale(Half, C9_K0))))
C9_K2 == Scale(conf.dt, C9_A(Mul(Half, conf.dt), AddRows(v0, Scale(Half, C9_K1))))
C9_K3 == Scale(conf.dt, C9_A(conf.dt, AddRows(v0, C9_K2)))
C9_Ks == <<C9_K0, C9_K1, C9_K2, C9_K3>>
C9_Dv ==
    AddRows(AddRows(AddRows(Scale(Rat(1, 6), C9_K0), Scale(Rat(1, 3), C9_K1)),
                    Scale(Rat(1, 3), C9_K2)),
            Scale(Rat(1, 6), C9_K3))

\* C9: with 4 stages the evaluations of a are, in this order, K0 = dt*a(0, v0),
\* K1 = dt*a(0.5dt, v0 + 0.5K0), K2 = dt*a(0.5dt, v0 + 0.5K1),
\* K3 = dt*a(dt, v0 + K2), each with the free rows placed at
\* x0[free] + (v*t)[free] from the snapshot x0 and the value cb*r/mass, and
\* dv = K0/6 + K1/3 + K2/3 + K3/6.  (The positions the last stage leaves are
\* compared where K0 and K1 are finite on the free rows: rk adds them to the
\* argument of the last stage with the weight zero.)
C9_RungeKutta4 ==
    (pc \in {"rk", "update"} /\ steps = 4) =>
        /\ \A j \in 1..Len(Ks) : Ks[j] = C9_Ks[j]
        /\ pc = "update" => dv = C9_Dv
        /\ (pc = "update" /\ AllFinite(Ks[1], free) /\ AllFinite(Ks[2], free)) =>
              x = C9_X(conf.dt, AddRows(v0, C9_K2))

\* a second iteration, with a moving start, has combined four different
\* finite stages
C9_Witness ==
    /\ pc = "update" /\ steps = 4 /\ k = 1
    /\ \E i \in free : v0[i] # ZeroRow /\ x0[i] # args.vertices[i]
    /\ AllFinite(dv, free)
    /\ Ks[1] # Ks[2] /\ Ks[2] # Ks[3] /\ Ks[3] # Ks[4]

\* the iteration has assigned r as a whole
EndOfIteration ==
    \/ pc \in {"crits", "callback", "convergence"}
    \/ pc \in {"for", "returned"} /\ k >= 0
    \/ pc = "raised" /\ exc = "ValueError"

\* C10 as stated: at the end of every iteration, and in the r returned, the
\* rows of r at the fixed indices are zero.
C10_FixedRowsZero ==
    EndOfIteration => \A i \in args.fixed : r[i] = ZeroRow

\* the force on vertex i: its load minus the pull q * (x[j] - x[i]) signed
\* by the end of each incident edge
C10_Support(i) ==
    [c \in Axes |->
        Sub(args.loads[i][c],
            SumUpTo([e \in Es |->
                LET u == Add(Neg(x[args.edges[e][1]][c]), x[args.edges[e][2]][c])
                IN  IF args.edges[e][1] = i THEN Sp(Neg(q[e]), u)
                    ELSE IF args.edges[e][2] = i THEN Sp(q[e], u)
                    ELSE Zero], num_e))]

\* C10 as amended: the fixed rows of r are zero only until the first
\* iteration assigns r; at the end of every iteration, and in the r returned,
\* they hold the force p - Ct.Q.u on the supports.
C10_FixedRowsRecomputed ==
    /\ (pc \in {"assemble", "rk", "update"} /\ k = 0) =>
          \A i \in args.fixed : r[i] = ZeroRow
    /\ EndOfIteration => \A i \in args.fixed : r[i] = C10_Support(i)

\* the driver has returned an r with a finite non-zero fixed row
C10_Witness ==
    /\ pc = "returned" /\ k >= 0
    /\ \E i \in args.fixed : r[i] # ZeroRow /\ \A c \in Axes : IsFinite(r[i][c])

\* every entry of the argument linit is zero
LinitAllZero == \A e \in Es : args.linit[e] = Zero

\* the length of edge e at the input positions
InputLength(e) ==
    RowNorm([c \in Axes |->
        Sub(args.vertices[args.edges[e][2]][c], args.vertices[args.edges[e][1]][c])])

\* C11: linit is replaced by the edge lengths of the input positions exactly
\* when every entry of the argument is zero, otherwise no entry is replaced;
\* the array is assigned once, before iteration 0, and no iteration changes
\* it; after the replacement the term q_EA of iteration 0 is zero on every
\* edge.
C11_AutofillOnlyWhenAllZero ==
    /\ Built => \A e \in Es :
          linit[e] = IF LinitAllZero THEN InputLength(e) ELSE args.linit[e]
    /\ (LinitAllZero /\ k = 0 /\ pc \in {"assemble", "rk", "update"}) =>
          /\ \A e \in Es : q_EA[e] = Zero
          /\ pc # "assemble" => q = EdgeSum([e \in Es |-> Zero])

\* an input with stiffness and no initial length is past the assembly of
\* iteration 0 with linit filled in
C11_Witness ==
    /\ LinitAllZero /\ pc = "rk" /\ k = 0
    /\ \E e \in Es : EA[e] # Zero /\ linit[e] # Zero /\ linit[e] # args.linit[e]

\* iteration 0 has assembled q and mass
Assembled0 == k = 0 /\ pc \notin {"assemble", "callback_check", "configuration", "arrays"}

\* the force on vertex i at the input positions with the q of the iteration
InputResidual(i) ==
    [c \in Axes |->
        Sub(args.loads[i][c],
            SumUpTo([e \in Es |->
                LET u == Sub(args.vertices[args.edges[e][2]][c],
                             args.vertices[args.edges[e][1]][c])
                IN  IF args.edges[e][1] = i THEN Sp(Neg(q[e]), u)
                    ELSE IF args.edges[e][2] = i THEN Sp(q[e], u)
                    ELSE Zero], num_e))]

\* the input is in equilibrium: r[free] = 0 with the q of iteration 0
Balanced == Assembled0 /\ \A i \in free : InputResidual(i) = ZeroRow

\* no free vertex has a zero or NaN mass
FreeMassUsable == \A i \in free : mass[i] # Zero /\ ~IsNaN(mass[i])

AllZeroRows(A) == \A i \in DOMAIN A : A[i] = ZeroRow

\* C12 as stated: from an input in equilibrium, iteration 0 leaves x at the
\* input positions and v at zero, and the driver stops after it.
C12_EquilibriumKept ==
    Balanced =>
        /\ x = args.vertices
        /\ AllZeroRows(v)
        /\ pc # "raised"
        /\ ~(pc = "for" /\ conf.kmax > 1)

\* C12 as amended: from an input in equilibrium whose free vertices all have
\* a mass that is neither zero nor NaN, iteration 0 leaves x at the input
\* positions and v at zero with both criteria zero, and the driver returns
\* after it unless tol1 <= 0 and tol2 <= 0 and kmax > 1; where a free vertex
\* has a zero or NaN mass the iteration ends with the ValueError of norm.
C12_EquilibriumKeptWithMass ==
    Balanced =>
        IF FreeMassUsable
        THEN /\ x = args.vertices
             /\ AllZeroRows(v)
             /\ pc # "raised"
             /\ pc \in {"callback", "convergence", "for", "returned"} =>
                   AllZeroRows(crit1) /\ AllZeroRows(crit2)
             /\ pc = "for" => ~Less(Zero, conf.tol1) /\ ~Less(Zero, conf.tol2)
        ELSE /\ pc \in {"rk", "update", "crits", "raised"}
             /\ pc = "raised" => exc = "ValueError"

\* the chain in equilibrium has returned after iteration 0 although more
\* iterations were allowed
C12_Witness ==
    /\ Balanced /\ FreeMassUsable
    /\ \E i \in free : \E e \in Es : Cm(e, i) # 0 /\ q[e] # Zero
    /\ pc = "returned" /\ conf.kmax > 1
    /\ x = args.vertices

\* the second call has ended
SecondEnded == first # <<>> /\ pc \in {"returned", "raised"}

\* C13 as stated: when t is added to every vertex position and every load,
\* the second call returns the positions of the first shifted by t, after
\* the same number of iterations.
C13_ShiftedWithLoads ==
    (SecondEnded /\ first.withLoads /\ first.pc = "returned") =>
        /\ pc = "returned"
        /\ x = ShiftRows(first.x, first.t)
        /\ k = first.k

\* C13 as amended: when t is added to every vertex position and the loads
\* are left as they are, the second call ends as the first did, after the
\* same number of iterations, with the positions of the first shifted by t.
C13_ShiftedPositionsOnly ==
    (SecondEnded /\ ~first.withLoads) =>
        /\ pc = first.pc /\ exc = first.exc
        /\ k = first.k
        /\ Built <=> first.x # <<>>
        /\ Built => x = ShiftRows(first.x, first.t)

\* both calls ran two iterations and returned, and the free vertices moved
C13_Witness ==
    /\ SecondEnded /\ ~first.withLoads
    /\ pc = "returned" /\ first.pc = "returned" /\ k = 1
    /\ \E i \in free : x[i] # args.vertices[i] /\ \A c \in Axes : IsFinite(x[i][c])

\* C14 as stated: every callback that is neither None nor callable is
\* reported before any array is built and before the first iteration.
C14_NonCallableRejected ==
    (args.callback # "None" /\ ~IsCallable(args.callback)) =>
        /\ pc \in {"callback_check", "raised"}
        /\ pc = "raised" => exc = "AssertionError"

\* C14 as amended: a callback that is truthy and not callable ends the call
\* with AssertionError before the options are read, an array is built or an
\* iteration runs; a falsy value that is not callable (0, '', [], False) is
\* accepted like None: it is never checked and never invoked.
C14_TruthyNonCallableRejected ==
    /\ (Truthy(args.callback) /\ ~IsCallable(args.callback)) =>
          /\ pc \in {"callback_check", "raised"}
          /\ pc = "raised" => exc = "AssertionError"
          /\ conf = <<>> /\ ~Built /\ k = -1 /\ calls = <<>>
    /\ ~Truthy(args.callback) => exc # "AssertionError" /\ calls = <<>>
    /\ exc = "AssertionError" => Truthy(args.callback) /\ ~IsCallable(args.callback)

\* a call with a falsy non-callable callback ran an iteration and returned
C14_Witness ==
    /\ args.callback = "zero"
    /\ pc = "returned" /\ k >= 0 /\ calls = <<>>


\* [P[nbr] for nbr in nbrs] for positions P
NbrPointsAt(P, key) ==
    [n \in 1..Len(smooth.adjacency[key]) |-> P[smooth.adjacency[key][n]]]

\* the centroid or the centre of mass of the neighbours of key at positions P
NeighbourTargetAt(P, key) ==
    IF smooth.fn = "smooth_centroid" THEN centroid_points(NbrPointsAt(P, key))
    ELSE center_of_mass_polygon(NbrPointsAt(P, key))

\* the position of key after a pass that reads only positions P
JacobiMove(P, key, target) ==
    [c \in Axes |-> Add(P[key][c], Mul(smooth.damping, Sub(target[c], P[key][c])))]

\* a pass of a smoother over all the vertices has just ended
PassEnded == smooth_pc = "vertex" /\ todo = <<>>

\* C15: at the end of every pass of smooth_centroid and smooth_centerofmass,
\* every non-fixed vertex stands where the positions at the start of the pass
\* put it, whatever the order of the visits.
C15_TargetsFromSnapshot ==
    (PassEnded /\ smooth.fn \in {"smooth_centroid", "smooth_centerofmass"}) =>
        \A key \in DOMAIN vertices \ smooth_fixed :
            vertices[key] = JacobiMove(pass_start, key, NeighbourTargetAt(pass_start, key))

\* the positions at the start of the pass, the fixed vertices at their input
\* coordinates
FixedAtInput(P) ==
    [key \in DOMAIN P |-> IF key \in smooth_fixed THEN smooth.vertices[key] ELSE P[key]]

\* every neighbour of key is fixed
NbrsAllFixed(key) ==
    \A n \in 1..Len(smooth.adjacency[key]) : smooth.adjacency[key][n] \in smooth_fixed

\* some neighbour of key, or some corner of a face of key, is fixed
UsesFixed(key) ==
    IF smooth.fn = "smooth_area"
    THEN \E n \in 1..Len(smooth.adjacency[key]) :
            /\ smooth.adjacency[key][n] # NoneKey
            /\ \E i \in 1..Len(smooth.faces[smooth.adjacency[key][n]]) :
                  smooth.faces[smooth.adjacency[key][n]][i] \in smooth_fixed
    ELSE \E n \in 1..Len(smooth.adjacency[key]) : smooth.adjacency[key][n] \in smooth_fixed

\* C16: in all three smoothers every fixed vertex stays at its input
\* coordinates at every point of the call, and the input coordinates of the
\* fixed vertices enter the targets: at the end of a pass a non-fixed vertex
\* of smooth_area stands where the faces with their fixed corners at the
\* input put it, and so does a non-fixed vertex of the other two smoothers
\* all of whose neighbours are fixed.
C16_FixedKeptAndUsed ==
    /\ \A key \in smooth_fixed : vertices[key] = smooth.vertices[key]
    /\ PassEnded =>
          \A key \in DOMAIN vertices \ smooth_fixed :
              IF smooth.fn = "smooth_area"
              THEN vertices[key] =
                      JacobiMove(pass_start, key,
                                 AreaTarget(key, FaceCentroids(FixedAtInput(pass_start)),
                                            FaceAreas(FixedAtInput(pass_start))))
              ELSE NbrsAllFixed(key) =>
                      vertices[key] =
                          JacobiMove(pass_start, key,
                                     NeighbourTargetAt(smooth.vertices, key))

\* the second pass has ended with fixed vertices, and a non-fixed vertex with
\* a fixed neighbour or face corner has moved
C16_Witness ==
    /\ PassEnded
    /\ smooth_k >= 1
    /\ smooth_fixed # {}
    /\ \E key \in DOMAIN vertices \ smooth_fixed :
          /\ UsesFixed(key)
          /\ vertices[key] # smooth.vertices[key]
          /\ vertices[key] # pass_start[key]


\* the permutations of 1..n
Perms(n) == { p \in [1..n -> 1..n] : \A a, b \in 1..n : a # b => p[a] # p[b] }

\* the number of inversions of p
Inversions(p) ==
    Cardinality({ ab \in (DOMAIN p) \X (DOMAIN p) : ab[1] < ab[2] /\ p[ab[1]] > p[ab[2]] })

RECURSIVE PermProduct(_, _, _)
\* M[1][p[1]] * ... * M[n][p[n]]
PermProduct(M, p, n) == IF n = 0 THEN 1 ELSE PermProduct(M, p, n - 1) * M[n][p[n]]

RECURSIVE SumOver(_, _, _)
\* the sum of the signed products over the permutations in ps
SumOver(M, ps, n) ==
    IF ps = {} THEN 0
    ELSE LET p == CHOOSE p \in ps : TRUE
         IN  MinusOnePow(Inversions(p)) * PermProduct(M, p, n) + SumOver(M, ps \ {p}, n)

\* the Leibniz value of the determinant of a square matrix
Leibniz(M) == SumOver(M, Perms(Len(M)), Len(M))

\* the call of a helper has returned or raised
HelperEnded == helper_pc \in {"returned", "raised"}

\* C17: inverse(M) ends with a ValueError, and returns nothing, for every
\* square matrix M whose determinant is 0.
C17_SingularRaisesValueError ==
    (HelperEnded /\ helper.fn = "inverse" /\ ~NotSquare(helper.M) /\ Leibniz(helper.M) = 0) =>
        /\ helper_pc = "raised"
        /\ helper_exc = "ValueError"
        /\ helper_out = <<>>

\* C18: determinant(M) returns the Leibniz value for every square matrix of
\* dimension 1 and more, and raises ValueError for a matrix that is not
\* square when check is true.
C18_DeterminantCorrect ==
    (HelperEnded /\ helper.fn = "determinant") =>
        IF NotSquare(helper.M)
        THEN helper_pc = "raised" /\ helper_exc = "ValueError"
        ELSE helper_pc = "returned" /\ helper_out = Leibniz(helper.M)


\* the free rows of a(t, vv) as rk evaluates it: cb * (p - D.dot(x)) / mass at
\* x = x0 + vv * t on the free rows; the other rows are not looked at
AFree(t, vv) ==
    LET xt == SetRows(x, free, AddRows(x0, Scale(t, vv)))
    IN  [i \in Vs |-> [c \in Axes |->
            IF i \in free
            THEN Div(Mul(conf.cb, Sub(args.loads[i][c], DDot(q, xt, i)[c])), mass[i])
            ELSE Zero]]

\* B[0] * K0 + B[1] * K1 of the scheme with two stages
TwoStage(K0, K1) == AddRows(Scale(Zero, K0), Scale(One, K1))

\* rk has just returned dv for one of the schemes with one or two stages
RkReturned(st) == pc = "update" /\ steps = st

\* two arrays of rows agree on the free vertices
SameOnFree(got, want) == \A i \in free : got[i] = want[i]

\* C19 as stated: rk returns dt * a(0, v0) for steps = 1, and
\* 0 * K0 + 1 * K1 with K0 = dt * a(0, v0), K1 = dt * a(dt, v0 + K0) for
\* steps = 2, and fails for steps outside {1, 2, 4}.
C19_TableauAsStated ==
    /\ RkReturned(1) => SameOnFree(dv, Scale(conf.dt, AFree(Zero, v0)))
    /\ RkReturned(2) =>
          LET K0 == Scale(conf.dt, AFree(Zero, v0))
              K1 == Scale(conf.dt, AFree(conf.dt, AddRows(v0, K0)))
          IN  SameOnFree(dv, TwoStage(K0, K1))
    /\ steps = 3 => (pc = "rk" \/ (pc = "raised" /\ exc = "NotImplementedError"))

\* C19 amended: rk returns a(dt, v0), not scaled by dt, for steps = 1, and
\* 0 * K0 + 1 * K1 with K0 = dt * a(0, v0), K1 = dt * a(dt / 2, v0 + K0 / 2)
\* for steps = 2, and raises NotImplementedError for steps outside {1, 2, 4}.
C19_RkAsCoded ==
    /\ RkReturned(1) => SameOnFree(dv, AFree(conf.dt, v0))
    /\ RkReturned(2) =>
          LET K0 == Scale(conf.dt, AFree(Zero, v0))
              K1 == Scale(conf.dt, AFree(Mul(Half, conf.dt), AddRows(v0, Scale(Half, K0))))
          IN  SameOnFree(dv, TwoStage(K0, K1))
    /\ steps = 3 => (pc = "rk" \/ (pc = "raised" /\ exc = "NotImplementedError"))

\* rk has returned a finite, non-zero dv of the scheme with two stages that
\* differs from the stated tableau's, in an iteration that started with a
\* velocity
C19_Witness ==
    /\ RkReturned(2)
    /\ \E i \in free :
          /\ IsFinite(dv[i][1]) /\ dv[i][1] # Zero
          /\ v0[i][1] # Zero
          /\ dv[i] # TwoStage(Scale(conf.dt, AFree(Zero, v0)),
                              Scale(conf.dt, AFree(conf.dt,
                                  AddRows(v0, Scale(conf.dt, AFree(Zero, v0))))))[i]


\* vertex i is an end of edge e
Incident(i, e) == i = args.edges[e][1] \/ i = args.edges[e][2]

\* C20: in every iteration the mass of every vertex incident to an edge e with
\* linit[e] = 0, on an input where only some entries of linit are zero, is
\* finite: EA / linit contributes zero there (the force densities of the
\* iteration being finite).
C20_MassFiniteAtZeroLinit ==
    (mass # <<>> /\ ~LinitAllZero /\ \A e \in Es : IsFinite(q[e])) =>
        \A e \in Es : \A i \in Vs :
            (linit[e] = Zero /\ Incident(i, e)) => IsFinite(mass[i])


\* the force densities the edge laws assemble when the prescribed-length
\* term is taken from the forces ff
AssembledFrom(ff) ==
    [e \in Es |->
        Add(Add(Add(args.qpre[e], q_fpre[e]), Clean(Div(ff[e], args.lpre[e]))), q_EA[e])]

\* C21 as an invariant of the state in which the edge laws are about to be
\* assembled: f is then q * l of the iteration before, with that iteration's
\* q and the lengths after its position update, and in iteration 0 the seed
\* 1 * l of the input lengths.
C21_ForceOfIterationBefore ==
    pc = "assemble" =>
        /\ f = [e \in Es |-> Mul(q[e], l[e])]
        /\ l = NormRow(CDot(x))
        /\ k = 0 => /\ q = [e \in Es |-> One]
                    /\ x = args.vertices

\* C21: the prescribed-length contribution of iteration k is one step
\* behind: the assembly of the edge laws takes f as the iteration before left
\* it (in iteration 0 the seed), builds q from f / lpre, and leaves f as it
\* is until the position update.
C21_LpreOneStepBehind ==
    [][pc = "assemble" =>
          /\ C21_ForceOfIterationBefore
          /\ q' = AssembledFrom(f)
          /\ f' = f /\ l' = l]_vars

\* a second iteration has assembled its force densities with a finite,
\* non-zero f / lpre, and f, still that of the iteration before, is not the
\* current q * l
C21_Witness ==
    /\ pc = "rk" /\ k >= 1
    /\ \E e \in Es :
          /\ args.lpre[e] # Zero
          /\ IsFinite(f[e]) /\ f[e] # Zero
          /\ IsFinite(q[e])
          /\ f[e] # Mul(q[e], l[e])
          /\ f[e] # Mul(args.qpre[e], l[e])

----------------------------------------------------------------------------
====
